---- MODULE Spec2Model ----
(***************************************************************************)
(* Structural model of frontend/src/types/menu.ts.                         *)
(*                                                                         *)
(* The file declares interfaces only.  The model represents every          *)
(* interface as its set of members, builds the derived interfaces with     *)
(* the same type operators the source uses (Omit, Partial, extends), and   *)
(* decides "payload p is accepted as T" by TypeScript's assignability      *)
(* rules for object types: every required member present, every present    *)
(* declared member of the declared type, and, for a fresh object literal   *)
(* only, no undeclared member (excess property check).                     *)
(***************************************************************************)
EXTENDS Naturals, FiniteSets, Sequences, TLC

VARIABLES payload, fresh, edits, last

vars == <<payload, fresh, edits, last>>

(* Number of single-field edits applied to an example payload. *)
MaxEdits == 1

-----------------------------------------------------------------------------
(* Values.  A value is <<kind, elems>>: elems is the set of element kinds   *)
(* of an array, or of property-value kinds of an object; empty otherwise.  *)
(* Values are the JSON values a request or response body can carry.        *)

Absent == <<"absent", {}>>
Num == <<"number", {}>>
Str == <<"string", {}>>
Bool == <<"boolean", {}>>
Null == <<"null", {}>>
Arr(S) == <<"array", S>>
Obj(S) == <<"object", S>>

(* Element kinds of arrays: a number, an object satisfying Allergen. *)
ArrayElems == {"number", "allergen"}
(* Kinds of the property values of an object used as a dictionary. *)
PropKinds == {"string[]", "number"}

Values ==
    {Num, Str, Bool, Null}
        \cup {Arr(S) : S \in SUBSET ArrayElems}
        \cup {Obj(S) : S \in SUBSET PropKinds}

(* Every property name that occurs in the file. *)
Fields ==
    {"id", "name", "description", "price", "category_id", "category",
     "is_active", "is_available", "is_vegetarian", "is_vegan",
     "is_gluten_free", "spice_level", "preparation_time", "average_rating",
     "rating_count", "allergens", "customization_options", "image_url",
     "created_at", "updated_at", "allergen_ids"}

-----------------------------------------------------------------------------
(* Compiler setting the declarations are checked under: null is its own    *)
(* type and is not a member of string, number, ...                         *)
strictNullChecks == TRUE

(* v is a value of the declared type t. *)
HasType(v, t) ==
    \/ (~strictNullChecks /\ v = Null /\ t # "never")
    \/ CASE t = "number" -> v = Num
         [] t = "string" -> v = Str
         [] t = "boolean" -> v = Bool
         [] t = "string | null" -> v \in {Str, Null}
         [] t = "Allergen[]" -> v[1] = "array" /\ v[2] \subseteq {"allergen"}
         [] t = "number[]" -> v[1] = "array" /\ v[2] \subseteq {"number"}
         [] t = "{ [key: string]: string[] }" ->
                v[1] = "object" /\ v[2] \subseteq {"string[]"}
         [] t = "never" -> FALSE
         [] OTHER -> FALSE

(* Members of an interface. *)
Req(n, t) == [name |-> n, type |-> t, optional |-> FALSE]
Opt(n, t) == [name |-> n, type |-> t, optional |-> TRUE]

Names(T) == {m.name : m \in T}

(* Omit<T, K> *)
Omit(T, K) == {m \in T : m.name \notin K}

(* Partial<T> *)
Partial(T) == {[m EXCEPT !.optional = TRUE] : m \in T}

(* interface X extends B { own } *)
Extends(B, own) == own \cup {m \in B : m.name \notin Names(own)}

-----------------------------------------------------------------------------
(* The declared interfaces. *)

MenuItem ==
    {Req("id", "number"), Req("name", "string"), Req("description", "string"),
     Req("price", "number"), Req("category_id", "number"),
     Req("category", "string"), Req("is_active", "boolean"),
     Req("is_available", "boolean"), Req("is_vegetarian", "boolean"),
     Req("is_vegan", "boolean"), Req("is_gluten_free", "boolean"),
     Req("spice_level", "number"), Req("preparation_time", "number"),
     Req("average_rating", "number"), Req("rating_count", "number"),
     Req("allergens", "Allergen[]"),
     Req("customization_options", "{ [key: string]: string[] }"),
     Opt("image_url", "string"),
     Req("created_at", "string"), Req("updated_at", "string")}

(* Category with description declared optional instead of nullable. *)
CategoryOptionalDescription ==
    {Req("id", "number"), Req("name", "string"),
     Opt("description", "string"), Req("is_active", "boolean"),
     Req("created_at", "string"), Req("updated_at", "string")}

Category ==
    {Req("id", "number"), Req("name", "string"),
     Req("description", "string | null"), Req("is_active", "boolean"),
     Req("created_at", "string"), Req("updated_at", "string")}

CategoryCreate ==
    {Req("name", "string"), Req("description", "string | null"),
     Req("is_active", "boolean")}

(* CategoryUpdate declared over Partial<CategoryCreate>. *)
CategoryUpdatePartial == Extends(Partial(CategoryCreate), {Opt("id", "never")})

(* CategoryUpdate that narrows description to string. *)
CategoryUpdateNarrowDescription ==
    Extends(CategoryCreate, {Opt("id", "never"), Req("description", "string")})

CategoryUpdate == Extends(CategoryCreate, {Opt("id", "never")})

Allergen ==
    {Req("id", "number"), Req("name", "string"), Opt("description", "string")}

(* The keys MenuItemCreate omits from MenuItem. *)
OmittedKeys ==
    {"id", "created_at", "updated_at", "category", "average_rating",
     "rating_count"}

(* MenuItemCreate whose Omit list forgets 'category'. *)
MenuItemCreateKeepsCategory ==
    Extends(Omit(MenuItem, OmittedKeys \ {"category"}),
            {Req("category_id", "number"), Req("allergen_ids", "number[]")})

(* MenuItemCreate that declares allergen_ids optional. *)
MenuItemCreateOptionalAllergenIds ==
    Extends(Omit(MenuItem, OmittedKeys),
            {Req("category_id", "number"), Opt("allergen_ids", "number[]")})

MenuItemCreate ==
    Extends(Omit(MenuItem, OmittedKeys),
            {Req("category_id", "number"), Req("allergen_ids", "number[]")})

(* MenuItemUpdate without the id?: never member. *)
MenuItemUpdateAllowsId == Partial(MenuItemCreate)

(* MenuItemUpdate that extends MenuItemCreate directly, without Partial. *)
MenuItemUpdateNotPartial == Extends(MenuItemCreate, {Opt("id", "never")})

MenuItemUpdate == Extends(Partial(MenuItemCreate), {Opt("id", "never")})

Shapes ==
    {MenuItem, Category, CategoryCreate, CategoryUpdate, Allergen,
     MenuItemCreate, MenuItemUpdate}

-----------------------------------------------------------------------------
(* Assignability of a payload to an interface.  isFresh: the payload is    *)
(* written as an object literal at the place it is checked, so undeclared  *)
(* properties are an error; otherwise extra properties are allowed.        *)
Accepts(T, p, isFresh) ==
    /\ \A m \in T :
          IF p[m.name] = Absent THEN m.optional ELSE HasType(p[m.name], m.type)
    /\ isFresh => \A f \in Fields : p[f] # Absent => f \in Names(T)

-----------------------------------------------------------------------------
(* Example payloads. *)

Empty == [f \in Fields |-> Absent]

With(p, fs, v) == [f \in Fields |-> IF f \in fs THEN v ELSE p[f]]

ExampleMenuItem ==
    [f \in Fields |->
        CASE f \in {"id", "price", "category_id", "spice_level",
                    "preparation_time", "average_rating", "rating_count"} -> Num
          [] f \in {"name", "description", "category", "image_url",
                    "created_at", "updated_at"} -> Str
          [] f \in {"is_active", "is_available", "is_vegetarian", "is_vegan",
                    "is_gluten_free"} -> Bool
          [] f = "allergens" -> Arr({"allergen"})
          [] f = "customization_options" -> Obj({"string[]"})
          [] OTHER -> Absent]

ExampleCategory ==
    [f \in Fields |->
        CASE f = "id" -> Num
          [] f \in {"name", "created_at", "updated_at"} -> Str
          [] f = "description" -> Null
          [] f = "is_active" -> Bool
          [] OTHER -> Absent]

(* { name: "Desserts", description: null, is_active: true } *)
ExampleCategoryCreate ==
    [f \in Fields |->
        CASE f = "name" -> Str
          [] f = "description" -> Null
          [] f = "is_active" -> Bool
          [] OTHER -> Absent]

ExampleAllergen ==
    [f \in Fields |->
        CASE f = "id" -> Num
          [] f \in {"name", "description"} -> Str
          [] OTHER -> Absent]

Examples ==
    {ExampleMenuItem, ExampleCategory, ExampleCategoryCreate, ExampleAllergen}

(* Non-empty sequences of Allergen identifiers. *)
AllergenIds == {Arr({"number"})}

(* The create payload built from a MenuItem read value: the server-only    *)
(* keys removed, allergen_ids added.                                       *)
ToCreate(m, ids) ==
    [f \in Fields |->
        IF f = "allergen_ids" THEN ids
        ELSE IF f \in {"id", "created_at", "updated_at", "category",
                       "average_rating", "rating_count"} THEN Absent
        ELSE m[f]]

ExampleMenuItemCreate == ToCreate(ExampleMenuItem, Arr({"number"}))

-----------------------------------------------------------------------------
(* Payload construction. *)

Init ==
    /\ payload \in Examples
    /\ fresh \in BOOLEAN
    /\ edits = 0
    /\ last = "init"

SetField(f, v) ==
    /\ edits < MaxEdits
    /\ payload[f] # v
    /\ payload' = [payload EXCEPT ![f] = v]
    /\ edits' = edits + 1
    /\ last' = "set"
    /\ UNCHANGED fresh

DeleteField(f) ==
    /\ edits < MaxEdits
    /\ payload[f] # Absent
    /\ payload' = [payload EXCEPT ![f] = Absent]
    /\ edits' = edits + 1
    /\ last' = "delete"
    /\ UNCHANGED fresh

BuildCreate(ids) ==
    /\ Accepts(MenuItem, payload, fresh)
    /\ payload' = ToCreate(payload, ids)
    /\ last' = "build"
    /\ UNCHANGED <<fresh, edits>>

Next ==
    \/ \E f \in Fields, v \in Values : SetField(f, v)
    \/ \E f \in Fields : DeleteField(f)
    \/ \E ids \in AllergenIds : BuildCreate(ids)

Spec == Init /\ [][Next]_vars

(* Partial payloads: any subset of the properties of a valid create payload. *)
InitPartial ==
    /\ payload \in {ExampleMenuItemCreate, ExampleCategoryCreate}
    /\ fresh \in BOOLEAN
    /\ edits = 0
    /\ last = "init"

OmitField(f) ==
    /\ payload[f] # Absent
    /\ payload' = [payload EXCEPT ![f] = Absent]
    /\ last' = "omit"
    /\ UNCHANGED <<fresh, edits>>

NextPartial == \E f \in Fields : OmitField(f)

SpecPartial == InitPartial /\ [][NextPartial]_vars

-----------------------------------------------------------------------------
(* Properties. *)

(* p carries only properties T declares, each with a value of its declared *)
(* type (a correctly typed subset of T's properties).                      *)
WellTyped(T, p) ==
    \A f \in Fields :
        p[f] # Absent => \E m \in T : m.name = f /\ HasType(p[f], m.type)

(* C1: the payload built from a structurally valid MenuItem by removing id, *)
(* created_at, updated_at, category, average_rating and rating_count and   *)
(* adding a non-empty allergen_ids sequence of numbers is accepted as a    *)
(* MenuItemCreate.                                                         *)
C1_BuiltCreateAccepted ==
    last = "build" => Accepts(MenuItemCreate, payload, fresh)

C1_Built ==
    /\ last = "build"
    /\ fresh
    /\ payload["allergen_ids"] = Arr({"number"})
    /\ \A f \in OmittedKeys : payload[f] = Absent

(* C2: a payload that carries id is accepted neither as a MenuItemUpdate   *)
(* nor as a CategoryUpdate, whatever its other properties are.             *)
C2_IdRejectedByUpdates ==
    payload["id"] # Absent =>
        /\ ~Accepts(MenuItemUpdate, payload, fresh)
        /\ ~Accepts(CategoryUpdate, payload, fresh)

(* A payload whose only obstacle to being a MenuItemUpdate is its id. *)
C2_OnlyIdInTheWay ==
    /\ payload["id"] = Num
    /\ Accepts(Partial(MenuItemCreate), payload, FALSE)
    /\ Accepts(MenuItemUpdate, With(payload, {"id"}, Absent), FALSE)

(* C3: every correctly typed subset of the MenuItemCreate properties, with *)
(* no id, is accepted as a MenuItemUpdate (all members are optional).      *)
C3_PartialUpdateAccepted ==
    WellTyped(MenuItemCreate, payload) =>
        Accepts(MenuItemUpdate, payload, fresh)

(* The payload { price: 9.99 }. *)
C3_OnlyPrice ==
    /\ payload = With(Empty, {"price"}, Num)
    /\ last = "omit"

(* C4 as stated: both update shapes accept every correctly typed subset of *)
(* the properties of their create shape.                                   *)
C4_EveryUpdateIsPartialCreate ==
    /\ WellTyped(MenuItemCreate, payload) =>
          Accepts(MenuItemUpdate, payload, fresh)
    /\ WellTyped(CategoryCreate, payload) =>
          Accepts(CategoryUpdate, payload, fresh)

(* C4 amended: MenuItemUpdate accepts every correctly typed subset of the  *)
(* MenuItemCreate properties; CategoryUpdate accepts a correctly typed     *)
(* subset of the CategoryCreate properties exactly when none of name,      *)
(* description and is_active is missing.                                   *)
C4_OnlyMenuItemUpdateIsPartial ==
    /\ WellTyped(MenuItemCreate, payload) =>
          Accepts(MenuItemUpdate, payload, fresh)
    /\ WellTyped(CategoryCreate, payload) =>
          (Accepts(CategoryUpdate, payload, fresh)
              <=> \A f \in Names(CategoryCreate) : payload[f] # Absent)

(* A CategoryUpdate payload that carries only name. *)
C4_OnlyName ==
    /\ payload = With(Empty, {"name"}, Str)
    /\ last = "omit"
    /\ ~Accepts(CategoryUpdate, payload, fresh)

(* The MenuItemCreate shape in which allergen_ids replaces allergens. *)
CreateWithoutAllergens ==
    Extends(Omit(MenuItem, OmittedKeys \cup {"allergens"}),
            {Req("category_id", "number"), Req("allergen_ids", "number[]")})

(* C5: a create payload that carries allergen_ids and no allergens, with   *)
(* every other create property present, is accepted as a MenuItemCreate.   *)
C5_AllergenIdsReplaceAllergens ==
    (payload["allergens"] = Absent
        /\ Accepts(CreateWithoutAllergens, payload, fresh))
    => Accepts(MenuItemCreate, payload, fresh)

(* C6: no payload that carries id, created_at, updated_at, average_rating  *)
(* or rating_count is accepted as a MenuItemCreate, and none that carries  *)
(* id, created_at or updated_at is accepted as a CategoryCreate.           *)
C6_NoServerFieldsInCreate ==
    /\ (\E f \in {"id", "created_at", "updated_at", "average_rating",
                  "rating_count"} : payload[f] # Absent)
          => ~Accepts(MenuItemCreate, payload, fresh)
    /\ (\E f \in {"id", "created_at", "updated_at"} : payload[f] # Absent)
          => ~Accepts(CategoryCreate, payload, fresh)

(* C7: Category.description and CategoryCreate.description accept null and *)
(* reject absence; MenuItem.image_url and Allergen.description accept      *)
(* absence and reject null; no declared member of any shape accepts both.  *)
C7_NullVersusAbsent ==
    /\ \A T \in {Category, CategoryCreate} :
          /\ payload["description"] = Absent => ~Accepts(T, payload, fresh)
          /\ Accepts(T, payload, fresh) =>
                Accepts(T, With(payload, {"description"}, Null), fresh)
    /\ payload["image_url"] = Null => ~Accepts(MenuItem, payload, fresh)
    /\ Accepts(MenuItem, payload, fresh) =>
          Accepts(MenuItem, With(payload, {"image_url"}, Absent), fresh)
    /\ payload["description"] = Null => ~Accepts(Allergen, payload, fresh)
    /\ Accepts(Allergen, payload, fresh) =>
          Accepts(Allergen, With(payload, {"description"}, Absent), fresh)
    /\ \A T \in Shapes : \A f \in Names(T) :
          ~(/\ Accepts(T, With(payload, {f}, Null), fresh)
            /\ Accepts(T, With(payload, {f}, Absent), fresh))

(* A Category with description: null, which stops being one when the       *)
(* property is dropped.                                                    *)
C7_NullDescriptionCategory ==
    /\ payload["description"] = Null
    /\ Accepts(Category, payload, fresh)
    /\ ~Accepts(Category, With(payload, {"description"}, Absent), fresh)

(* C8: a payload without id is accepted as a CategoryUpdate exactly when   *)
(* it is accepted as a CategoryCreate; { name, description: null,          *)
(* is_active } is accepted by both.                                        *)
C8_CategoryUpdateSameAsCreate ==
    /\ payload["id"] = Absent =>
          (Accepts(CategoryUpdate, payload, fresh)
              <=> Accepts(CategoryCreate, payload, fresh))
    /\ Accepts(CategoryCreate, ExampleCategoryCreate, fresh)
    /\ Accepts(CategoryUpdate, ExampleCategoryCreate, fresh)

C8_DessertsAccepted ==
    /\ payload = ExampleCategoryCreate
    /\ Accepts(CategoryUpdate, payload, fresh)
    /\ Accepts(CategoryCreate, payload, fresh)

(* The members the claim lists as required in a create payload. *)
RequiredInCreate ==
    {"category_id", "allergen_ids", "name", "description", "price",
     "is_active", "is_available", "is_vegetarian", "is_vegan",
     "is_gluten_free", "spice_level", "preparation_time",
     "customization_options"}

(* C9: a MenuItemCreate payload is rejected when it lacks category_id,     *)
(* allergen_ids or any other non-optional member; image_url is the only    *)
(* member whose absence is accepted.                                       *)
C9_RequiredCreateFields ==
    /\ \A f \in RequiredInCreate :
          payload[f] = Absent => ~Accepts(MenuItemCreate, payload, fresh)
    /\ \A f \in Names(MenuItemCreate) :
          (payload[f] = Absent /\ Accepts(MenuItemCreate, payload, fresh))
              => f = "image_url"
    /\ Accepts(MenuItemCreate, payload, fresh) =>
          Accepts(MenuItemCreate, With(payload, {"image_url"}, Absent), fresh)

(* A create payload made invalid only by dropping category_id. *)
C9_CategoryIdDropped ==
    /\ last = "delete"
    /\ payload["category_id"] = Absent
    /\ ~Accepts(MenuItemCreate, payload, fresh)
    /\ Accepts(MenuItemCreate, With(payload, {"category_id"}, Num), fresh)

(* C10: every payload accepted as a MenuItemCreate is accepted as a        *)
(* MenuItemUpdate, and no MenuItem read value is accepted as a             *)
(* MenuItemCreate or as a MenuItemUpdate.                                  *)
C10_CreateWithinUpdateNoRoundTrip ==
    /\ Accepts(MenuItemCreate, payload, fresh) =>
          Accepts(MenuItemUpdate, payload, fresh)
    /\ Accepts(MenuItem, payload, fresh) =>
          /\ ~Accepts(MenuItemCreate, payload, fresh)
          /\ ~Accepts(MenuItemUpdate, payload, fresh)

====
